---- MODULE Spec2Model ----
(***************************************************************************)
(* Model of github.com/getlantern/lantern/feed.go: the package-level       *)
(* `feed` singleton, GetFeed (fetch, json.Unmarshal, processFeed) and      *)
(* FeedByName.                                                             *)
(*                                                                         *)
(*   Spec      GetFeed and FeedByName called one after the other, the      *)
(*             endpoint answering with any small document or failing       *)
(*   SpecProc  processFeed and FeedByName on every decoded feed of a       *)
(*             richer family, descriptions around the 150-byte limit       *)
(*   SpecFail  GetFeed over a loaded feed while every fetch fails          *)
(*   SpecConc  two GetFeed calls interleaved, one loop or pass at a time   *)
(*                                                                         *)
(* json.Unmarshal is modelled as documented: an existing map is reused and *)
(* keeps its other keys, a slice is reset and refilled.  A panic ends the  *)
(* process: `fault` records it and no call follows.                        *)
(*                                                                         *)
(* Strings that are only compared (titles, links, names) are TLA+ strings; *)
(* descriptions, which the code trims and slices, are sequences of         *)
(* one-byte characters.  Go slices are 1-based sequences here, so the      *)
(* source index i of a Source refers to Entries[i + 1].                    *)
(***************************************************************************)
EXTENDS Integers, Sequences, FiniteSets, TLC

(* ------------------------------ bounds -------------------------------- *)

\* longest "entries" array of a fetched document (Spec, SpecFail, SpecConc)
FetchEntries == 1
\* longest index list of a Source in a fetched document (Spec, SpecFail, SpecConc)
FetchRefs == 1
\* longest "entries" array of a decoded feed (SpecProc)
MaxEntries == 2
\* longest index list of a Source of a decoded feed (SpecProc)
MaxRefs == 1
\* longest run of white space around a generated description (SpecProc)
MaxPad == 1
\* how far the generated descriptions range around the limit (SpecProc)
MaxSlack == 1

(* --------------------------- program constants ------------------------ *)

\* math.Min(float64(len(desc)), 150)
DescLimit == 150

supportedLocales == {"en_US", "fa_IR", "fa", "zh_CN"}

(* ------------------------------ helpers ------------------------------- *)

Rep(c, n) == [i \in 1..n |-> c]

Range(s) == {s[i] : i \in DOMAIN s}

\* all orders in which a Go `range` may visit the keys of a map
Perms(S) == {p \in [1..Cardinality(S) -> S] : \A i, j \in 1..Cardinality(S) : p[i] = p[j] => i = j}

SeqsUpTo(S, n) == UNION {[1..k -> S] : k \in 0..n}

EmptyMap == [k \in {} |-> <<>>]

\* m[k] of a Go map: the zero value (a nil slice) when k is no key
Get(m, k) == IF k \in DOMAIN m THEN m[k] ELSE <<>>

\* m[k] = v
Put(m, k, v) == [x \in DOMAIN m \cup {k} |-> IF x = k THEN v ELSE m[x]]

(* --------------------------- JSON values ------------------------------ *)

\* an interface{} value held in FeedItem.Meta
JNil == [kind |-> "nil", str |-> <<>>]
JNum == [kind |-> "number", str |-> <<>>]
JStr(s) == [kind |-> "string", str |-> s]

\* FeedItem.Meta: a nil map (no "meta" in the document) or a map of values
NilMeta == [isNil |-> TRUE, kv |-> EmptyMap]
MetaOf(kv) == [isNil |-> FALSE, kv |-> kv]
DescMeta(v) == MetaOf([k \in {"description"} |-> v])

\* entry.Meta[key]: nil for a nil map, a missing key and a JSON null
MetaLookup(meta, key) == IF meta.isNil \/ key \notin DOMAIN meta.kv THEN JNil ELSE meta.kv[key]

FeedItem(title, link, image, meta) ==
    [Title |-> title, Link |-> link, Image |-> image, Meta |-> meta, Description |-> <<>>]

Source(title, refs) == [FeedUrl |-> "u", Title |-> title, Url |-> "l", Entries |-> refs]

(* ------------------------- strings.TrimSpace -------------------------- *)

WhiteSpace == {" ", "\t", "\n", "\r"}

RECURSIVE TrimLeft(_)
TrimLeft(s) == IF s # <<>> /\ Head(s) \in WhiteSpace THEN TrimLeft(Tail(s)) ELSE s

RECURSIVE TrimRight(_)
TrimRight(s) ==
    IF s # <<>> /\ s[Len(s)] \in WhiteSpace THEN TrimRight(SubSeq(s, 1, Len(s) - 1)) ELSE s

TrimSpace(s) == TrimRight(TrimLeft(s))

Min(a, b) == IF a < b THEN a ELSE b

(* ------------------- processFeed, lines 150-158 ----------------------- *)

\* aDesc.(string) panics unless the dynamic type of aDesc is string
AssertionPanics(aDesc) == aDesc.kind # "string"

\* Shorten with the limit one too low
ShortenOffByOne(aDesc) ==
    LET desc == TrimSpace(aDesc.str)
    IN  SubSeq(desc, 1, Min(Len(desc), DescLimit - 1))

\* desc[:min] of lines 152-157, for aDesc nil or a string
Shorten(aDesc) ==
    LET desc == IF aDesc # JNil THEN TrimSpace(aDesc.str) ELSE <<>>
    IN  SubSeq(desc, 1, Min(Len(desc), DescLimit))

\* the loop of lines 151-158: entries with Description set, up to the first
\* entry whose description makes the type assertion panic
RECURSIVE Describe(_, _)
Describe(entries, i) ==
    IF i > Len(entries) THEN [entries |-> entries, fault |-> "none"]
    ELSE LET aDesc == MetaLookup(entries[i].Meta, "description")
         IN  IF aDesc # JNil /\ AssertionPanics(aDesc)
             THEN [entries |-> entries, fault |-> "type assertion"]
             ELSE Describe([entries EXCEPT ![i].Description = Shorten(aDesc)], i + 1)

(* ------------------------- json.Unmarshal, line 127 ------------------- *)

\* A fetched document: its "feeds" object and, when the key is present, its
\* "entries" array.  Other top-level keys are ignored by the decoder.
Doc(feeds, hasEntries, entries) == [feeds |-> feeds, hasEntries |-> hasEntries, entries |-> entries]

NoDoc == Doc(EmptyMap, FALSE, <<>>)

\* json.Unmarshal(contents, &feed) into the existing value: a map that is
\* already there is reused and keeps the keys the document does not name,
\* a slice is reset and refilled, a field whose key is absent is left alone,
\* and Items (json:"-") is not touched.
Unmarshal(f, doc) ==
    [Feeds   |-> [k \in DOMAIN f.Feeds \cup DOMAIN doc.feeds |->
                     IF k \in DOMAIN doc.feeds THEN doc.feeds[k] ELSE f.Feeds[k]],
     Entries |-> IF doc.hasEntries THEN doc.entries ELSE f.Entries,
     Items   |-> f.Items]

(* ------------------------ processFeed, lines 133-168 ------------------ *)

\* ItemsInit without the make: the old index is kept
ItemsInitKeep(f) == Put(f.Items, "all", f.Entries)

\* lines 137-140: feed.Items = make(...); feed.Items["all"] = feed.Entries
ItemsInit(f) == Put(EmptyMap, "all", f.Entries)

\* Notify reporting each title once only
RECURSIVE NotifyDistinct(_, _)
NotifyDistinct(feeds, order) ==
    IF order = <<>> THEN <<>>
    ELSE LET rest == NotifyDistinct(feeds, Tail(order))
             t == feeds[Head(order)].Title
         IN  IF t # "" /\ t \notin Range(rest) THEN <<t>> \o rest ELSE rest

\* lines 143-148: the AddSource calls, in the order the map is ranged over
RECURSIVE Notify(_, _)
Notify(feeds, order) ==
    IF order = <<>> THEN <<>>
    ELSE LET s == feeds[Head(order)]
         IN  (IF s.Title # "" THEN <<s.Title>> ELSE <<>>) \o Notify(feeds, Tail(order))

\* the (title, index) pairs the nested loops of lines 160-167 visit, in order
RECURSIVE Work(_, _)
Work(feeds, order) ==
    IF order = <<>> THEN <<>>
    ELSE LET s == feeds[Head(order)]
         IN  [i \in DOMAIN s.Entries |-> [title |-> s.Title, ref |-> s.Entries[i]]]
             \o Work(feeds, Tail(order))

\* feed.Entries[i] of line 162 panics for an index outside the slice
OutOfRange(entries, i) == i < 0 \/ i >= Len(entries)

\* line 165: feed.Items[s.Title] = append(feed.Items[s.Title], entry)
AppendItem(items, title, entry) == Put(items, title, Append(Get(items, title), entry))

\* lines 160-167 over the pairs still to visit
RECURSIVE Group(_, _, _)
Group(items, entries, work) ==
    IF work = <<>> THEN [items |-> items, fault |-> "none"]
    ELSE LET w == Head(work)
         IN  IF OutOfRange(entries, w.ref)
             THEN [items |-> items, fault |-> "index out of range"]
             ELSE Group(AppendItem(items, w.title, entries[w.ref + 1]), entries, Tail(work))

\* processFeed on feed value f, the two map loops ranging in order1 and order2.
\* Items["all"] shares the backing array of Entries, so the descriptions
\* written in place by lines 151-158 show through it.
ProcessFeed(f, order1, order2) ==
    LET d == Describe(f.Entries, 1)
        items1 == Put(ItemsInit(f), "all", d.entries)
        g == IF d.fault = "none" THEN Group(items1, d.entries, Work(f.Feeds, order2))
             ELSE [items |-> items1, fault |-> d.fault]
    IN  [feed  |-> [Feeds |-> f.Feeds, Entries |-> d.entries, Items |-> g.items],
         added |-> Notify(f.Feeds, order1),
         fault |-> g.fault]

(* ------------------------ FeedByName, lines 72-80 --------------------- *)

AddFeedCall(i) == <<"AddFeed", i.Title, i.Description, i.Image, i.Link>>
FinishCall == <<"Finish">>

\* FeedByNameCalls with Finish inside the `if`
FeedByNameFinishIfFound(f, name) ==
    IF name \in DOMAIN f.Items
    THEN [k \in 1..Len(f.Items[name]) |-> AddFeedCall(f.Items[name][k])] \o <<FinishCall>>
    ELSE <<>>

\* the calls made on the retriever, in order
FeedByNameCalls(f, name) ==
    (IF name \in DOMAIN f.Items
     THEN [k \in 1..Len(f.Items[name]) |-> AddFeedCall(f.Items[name][k])]
     ELSE <<>>) \o <<FinishCall>>

(* ------------------------------- inputs ------------------------------- *)

Hello == <<" ", " ", "h", "i", " ", "y", "o", " ", "\n">>

\* the articles documents are made of: one without "meta", one with a padded
\* string description
EntryPool ==
    { FeedItem("A", "la", "ia", NilMeta),
      FeedItem("B", "lb", "ib", DescMeta(JStr(Hello))) }

SourceKeys == {"k1", "k2"}
Titles == {"", "all", "X"}
Names == {"all", "X", "nonexistent"}

\* index lists of at most r positions into an array of n entries; a position
\* is out of range whenever the document's array is shorter than n
RefLists(n, r) == SeqsUpTo(0..(n - 1), r)

\* "feeds" objects: any sources under any of the keys
FeedMaps(titles, n, r) ==
    UNION {[K -> {Source(t, refs) : t \in titles, refs \in RefLists(n, r)}] : K \in SUBSET SourceKeys}

\* documents with "feeds" and "entries"
FullDocs(titles, n, r) ==
    {Doc(fs, TRUE, es) : fs \in FeedMaps(titles, n, r), es \in SeqsUpTo(EntryPool, n)}

\* documents without an "entries" key
PartDocs(titles, n, r) == {Doc(fs, FALSE, <<>>) : fs \in FeedMaps(titles, n, r)}

\* the documents the endpoint serves in Spec
Docs == FullDocs({"X"}, FetchEntries, FetchRefs) \cup PartDocs({"X"}, FetchEntries, FetchRefs)

Locales == {"fa", "de_DE"}
ProxyAddrs == {"", "127.0.0.1:8787"}

\* where GetFeed can stop: http.NewRequest, util.HTTPClient, httpClient.Do,
\* ioutil.ReadAll; then json.Unmarshal fails on malformed JSON or succeeds.
\* Which one happens is up to the libraries and the network.
Stages == {"reqErr", "clientErr", "doErr", "readErr", "decodeErr", "ok"}

(* ------------------------------- state -------------------------------- *)

VARIABLES
    feed,        \* the package-level Feed value
    httpClient,  \* the package-level *http.Client: "nil", "direct", "proxied"
    op,          \* the last call made, with its inputs and how it ended
    added,       \* provider.AddSource arguments of the last call, in order
    retr,        \* retriever calls of the last call, in order
    fault,       \* "none", or the panic that ended the process
    pc,          \* SpecConc: where each GetFeed invocation stands
    loc,         \* SpecConc: the locals of each GetFeed invocation
    overlap      \* SpecConc: two invocations have been inside processFeed at once

vars == <<feed, httpClient, op, added, retr, fault, pc, loc, overlap>>

Op(kind, outcome, url, name, doc) ==
    [kind |-> kind, outcome |-> outcome, url |-> url, name |-> name, doc |-> doc]

\* the zero value of `var feed Feed`
ZeroFeed == [Feeds |-> EmptyMap, Entries |-> <<>>, Items |-> EmptyMap]

Goroutines == {1, 2}

\* the (title, index) pairs an invocation has still to group
IdleLoc == [work |-> <<>>]

Init ==
    /\ feed = ZeroFeed
    /\ httpClient = "nil"
    /\ op = Op("none", "", "", "", NoDoc)
    /\ added = <<>>
    /\ retr = <<>>
    /\ fault = "none"
    /\ pc = [g \in Goroutines |-> "idle"]
    /\ loc = [g \in Goroutines |-> IdleLoc]
    /\ overlap = FALSE

(* ------------------------- GetFeed, lines 86-129 ---------------------- *)

\* lines 91-95
ResolveLocale(locale) == IF locale \in supportedLocales THEN locale ELSE "en_US"

\* Aborts with the `return` of line 124 missing
AbortsButRead(stage) == stage \in {"reqErr", "clientErr", "doErr"}

\* the four `return`s of lines 99-125
Aborts(stage) == stage \in {"reqErr", "clientErr", "doErr", "readErr"}

\* lines 104-112: what httpClient holds once the stage is over
ClientAfter(old, proxyAddr, stage) ==
    IF stage = "reqErr" THEN old
    ELSE IF proxyAddr = "" THEN "direct"
    ELSE IF stage = "clientErr" THEN "nil"
    ELSE "proxied"

\* feed after line 127: a syntax error leaves the value alone, and so does a
\* body that could not be read
Decoded(f, stage, doc) == IF stage = "ok" THEN Unmarshal(f, doc) ELSE f

GetFeed(locale, proxyAddr, stage, doc, order1, order2) ==
    /\ fault = "none"
    /\ stage = "clientErr" => proxyAddr # ""
    /\ httpClient' = ClientAfter(httpClient, proxyAddr, stage)
    /\ op' = Op("GetFeed", stage, IF stage = "reqErr" THEN "" ELSE ResolveLocale(locale), "",
                IF stage = "ok" THEN doc ELSE NoDoc)
    /\ retr' = <<>>
    /\ IF Aborts(stage)
       THEN /\ feed' = feed
            /\ added' = <<>>
            /\ fault' = fault
       ELSE LET r == ProcessFeed(Decoded(feed, stage, doc), order1, order2)
            IN  /\ feed' = r.feed
                /\ added' = r.added
                /\ fault' = r.fault
    /\ UNCHANGED <<pc, loc, overlap>>

\* a call of GetFeed, the endpoint answering with one of docs or failing at
\* one of stages
GetFeedOf(locales, stages, docs) ==
    \E locale \in locales, proxyAddr \in ProxyAddrs, stage \in stages :
        \E doc \in IF stage = "ok" THEN docs ELSE {NoDoc} :
            LET f == Decoded(feed, stage, doc)
            IN  \E order1, order2 \in Perms(DOMAIN f.Feeds) :
                    GetFeed(locale, proxyAddr, stage, doc, order1, order2)

FeedByName(name) ==
    /\ fault = "none"
    /\ retr' = FeedByNameCalls(feed, name)
    /\ op' = Op("FeedByName", "", "", name, NoDoc)
    /\ added' = <<>>
    /\ UNCHANGED <<feed, httpClient, fault, pc, loc, overlap>>

FeedByNameCall == \E name \in Names : FeedByName(name)

Next == GetFeedOf({"de_DE"}, Stages, Docs) \/ FeedByNameCall

Spec == Init /\ [][Next]_vars

(* ---------------- processFeed on a freshly decoded feed --------------- *)

\* the feed value json.Unmarshal leaves at line 127 on the first fetch
ProcFeeds == {Unmarshal(ZeroFeed, d) : d \in FullDocs(Titles, MaxEntries, MaxRefs)}

Pads == SeqsUpTo({" ", "\n"}, MaxPad)

Bodies ==
    {Rep("a", n) : n \in (DescLimit - MaxSlack)..(DescLimit + MaxSlack)}
    \cup {<<>>, <<"a">>, <<"a", " ", "b">>}

DescStrings == {p \o b \o q : p \in Pads, b \in Bodies, q \in Pads}

\* "meta" objects: absent, empty, without a description, with a null, a
\* number or a string description
DescMetas ==
    {NilMeta, MetaOf(EmptyMap), MetaOf([k \in {"author"} |-> JStr(<<"a">>)]),
     DescMeta(JNil), DescMeta(JNum)}
    \cup {DescMeta(JStr(s)) : s \in DescStrings}

\* decoded one-article feeds, the article filed under source "X"
DescFeeds ==
    {[Feeds |-> [k \in {"k1"} |-> Source("X", <<0>>)],
      Entries |-> <<FeedItem("D", "ld", "id", m)>>,
      Items |-> EmptyMap] : m \in DescMetas}

InitProc ==
    /\ feed \in ProcFeeds \cup DescFeeds
    /\ httpClient = "direct"
    /\ op = Op("none", "", "", "", NoDoc)
    /\ added = <<>>
    /\ retr = <<>>
    /\ fault = "none"
    /\ pc = [g \in Goroutines |-> "idle"]
    /\ loc = [g \in Goroutines |-> IdleLoc]
    /\ overlap = FALSE

\* line 128, or any later run of processFeed on the feed as it stands
ProcessFeedStep ==
    /\ fault = "none"
    /\ \E order1, order2 \in Perms(DOMAIN feed.Feeds) :
           LET r == ProcessFeed(feed, order1, order2)
           IN  /\ feed' = r.feed
               /\ added' = r.added
               /\ fault' = r.fault
    /\ op' = Op("processFeed", "", "", "", NoDoc)
    /\ retr' = <<>>
    /\ UNCHANGED <<httpClient, pc, loc, overlap>>

NextProc == ProcessFeedStep \/ FeedByNameCall

SpecProc == InitProc /\ [][NextProc]_vars

(* ------------- GetFeed while the endpoint cannot be used -------------- *)

\* the feed values a first fetch can leave, the sources titled or not, and
\* the value of a process that never fetched
LoadedFeeds ==
    {ZeroFeed} \cup
    UNION {LET f == Unmarshal(ZeroFeed, d)
           IN  {ProcessFeed(f, o, o).feed : o \in {p \in Perms(DOMAIN f.Feeds) :
                                                    ProcessFeed(f, p, p).fault = "none"}}
           : d \in FullDocs({"", "X"}, FetchEntries, FetchRefs)}

InitFail ==
    /\ feed \in LoadedFeeds
    /\ httpClient \in {"nil", "direct"}
    /\ op = Op("none", "", "", "", NoDoc)
    /\ added = <<>>
    /\ retr = <<>>
    /\ fault = "none"
    /\ pc = [g \in Goroutines |-> "idle"]
    /\ loc = [g \in Goroutines |-> IdleLoc]
    /\ overlap = FALSE

\* every call fails, or gets a body that is not JSON
NextFail == GetFeedOf(Locales, Stages \ {"ok"}, {})

SpecFail == InitFail /\ [][NextFail]_vars

(* ------------------ two GetFeed calls without a lock ------------------ *)

\* Each goroutine runs GetFeed on the shared `feed`, a step at a time:
\*   idle     --Fetch-->       init      lines 91-127: the fetch, which touches only
\*                                      httpClient, and the decode into `feed`
\*   init     --MakeItems-->   describe  lines 137-148
\*   describe --DescribeAll--> group     lines 151-158, and the map of line 160 ranged
\*   group    --GroupOne-->    group/idle  one pass of lines 161-166, or the return

\* documents of one source "X" and at least one entry: the backing array of
\* feed.Entries, once allocated, is then reused by every later decode
ConcDocs ==
    {Doc([k \in {"k1"} |-> Source("X", refs)], TRUE, es) :
        refs \in RefLists(FetchEntries, FetchRefs),
        es \in SeqsUpTo(EntryPool, FetchEntries) \ {<<>>}}

Inside(p) == p \in {"init", "describe", "group"}

BothInside(p) == \A g \in Goroutines : Inside(p[g])

\* a slice sharing the backing array of feed.Entries sees what is written there
WriteThrough(slice, entries) ==
    [i \in 1..Len(slice) |-> IF i <= Len(entries) THEN entries[i] ELSE slice[i]]

ShareAll(items, entries) ==
    IF "all" \in DOMAIN items THEN Put(items, "all", WriteThrough(items["all"], entries)) ELSE items

Fetch(g, proxyAddr, stage, doc) ==
    /\ fault = "none"
    /\ pc[g] = "idle"
    /\ stage = "clientErr" => proxyAddr # ""
    /\ httpClient' = ClientAfter(httpClient, proxyAddr, stage)
    /\ IF Aborts(stage)
       THEN UNCHANGED <<feed, pc, overlap>>
       ELSE /\ LET f == Decoded(feed, stage, doc)
               IN  feed' = [f EXCEPT !.Items = ShareAll(f.Items, f.Entries)]
            /\ pc' = [pc EXCEPT ![g] = "init"]
            /\ overlap' = (overlap \/ BothInside(pc'))
    /\ UNCHANGED <<op, added, retr, fault, loc>>

MakeItems(g) ==
    /\ fault = "none"
    /\ pc[g] = "init"
    /\ feed' = [feed EXCEPT !.Items = ItemsInit(feed)]
    /\ \E order \in Perms(DOMAIN feed.Feeds) : added' = Notify(feed.Feeds, order)
    /\ pc' = [pc EXCEPT ![g] = "describe"]
    /\ UNCHANGED <<httpClient, op, retr, fault, loc, overlap>>

DescribeAll(g) ==
    /\ fault = "none"
    /\ pc[g] = "describe"
    /\ LET d == Describe(feed.Entries, 1)
       IN  /\ feed' = [feed EXCEPT !.Entries = d.entries,
                                   !.Items = ShareAll(feed.Items, d.entries)]
           /\ fault' = d.fault
    /\ \E order \in Perms(DOMAIN feed.Feeds) :
           loc' = [loc EXCEPT ![g] = [work |-> Work(feed.Feeds, order)]]
    /\ pc' = [pc EXCEPT ![g] = "group"]
    /\ UNCHANGED <<httpClient, op, added, retr, overlap>>

GroupOne(g) ==
    /\ fault = "none"
    /\ pc[g] = "group"
    /\ IF loc[g].work = <<>>
       THEN /\ pc' = [pc EXCEPT ![g] = "idle"]
            /\ UNCHANGED <<feed, fault, loc>>
       ELSE LET w == Head(loc[g].work)
            IN  /\ loc' = [loc EXCEPT ![g].work = Tail(loc[g].work)]
                /\ pc' = pc
                /\ IF OutOfRange(feed.Entries, w.ref)
                   THEN /\ fault' = "index out of range"
                        /\ feed' = feed
                   ELSE /\ fault' = fault
                        /\ feed' = [feed EXCEPT !.Items =
                                       AppendItem(feed.Items, w.title, feed.Entries[w.ref + 1])]
    /\ UNCHANGED <<httpClient, op, added, retr, overlap>>

NextConc ==
    \E g \in Goroutines :
        \/ \E proxyAddr \in {""}, stage \in {"doErr", "decodeErr", "ok"} :
               \E doc \in IF stage = "ok" THEN ConcDocs ELSE {NoDoc} :
                   Fetch(g, proxyAddr, stage, doc)
        \/ MakeItems(g)
        \/ DescribeAll(g)
        \/ GroupOne(g)

SpecConc == Init /\ [][NextConc]_vars

(* ============================ properties ============================== *)

Raw(e) == [e EXCEPT !.Description = <<>>]

TitlesOf(feeds) == {feeds[k].Title : k \in DOMAIN feeds}

KeysTitled(feeds, t) == {k \in DOMAIN feeds : feeds[k].Title = t}

Count(seq, x) == Cardinality({i \in DOMAIN seq : seq[i] = x})

\* the entries a source lists, in the order it lists them
Listed(entries, s) == [i \in 1..Len(s.Entries) |-> entries[s.Entries[i] + 1]]

FailStages == {"reqErr", "clientErr", "doErr", "readErr"}

\* C1: a GetFeed that fails building the request or the client, doing the
\* request or reading the body leaves Feeds, Entries and Items as they were
\* and calls AddSource not once, whatever feed was loaded before.
C1_FailedFetchKeepsFeed ==
    [][(op'.kind = "GetFeed" /\ op'.outcome \in FailStages)
          => (feed' = feed /\ added' = <<>>)]_vars

\* a body read failed over a loaded feed that has a titled source
C1_Witness ==
    /\ op.kind = "GetFeed"
    /\ op.outcome = "readErr"
    /\ "all" \in DOMAIN feed.Items
    /\ feed.Entries # <<>>
    /\ \E k \in DOMAIN feed.Feeds : feed.Feeds[k].Title # ""

\* C2: FeedByName(name, r) calls r.AddFeed(title, description, image, link)
\* once per entry of Items[name], in stored order (not at all when name is
\* no key), and then r.Finish exactly once, as the last call.
C2_FeedByNameTrace ==
    op.kind = "FeedByName" =>
        LET items == Get(feed.Items, op.name)
        IN  /\ Len(retr) = Len(items) + 1
            /\ retr[Len(retr)] = <<"Finish">>
            /\ \A i \in 1..Len(items) :
                   retr[i] = <<"AddFeed", items[i].Title, items[i].Description,
                               items[i].Image, items[i].Link>>

\* a lookup that streamed two different articles
C2_Witness ==
    /\ op.kind = "FeedByName"
    /\ Len(retr) = 3
    /\ retr[1] # retr[2]
    /\ retr[1][3] # <<>>

\* C3: after a GetFeed whose fetch and decode succeed, Feeds holds exactly
\* the sources of the new document and Entries exactly its entries.
C3_FeedIsNewDocument ==
    (op.kind = "GetFeed" /\ op.outcome = "ok" /\ fault = "none") =>
        /\ feed.Feeds = op.doc.feeds
        /\ [i \in 1..Len(feed.Entries) |-> Raw(feed.Entries[i])] = op.doc.entries

\* C4: after a completed processFeed, Items[s.Title] is, for every source s,
\* the sequence of the entries s lists, in the order s lists them.
C4_GroupIsSourceList ==
    (op.kind = "processFeed" /\ fault = "none") =>
        \A k \in DOMAIN feed.Feeds :
            Get(feed.Items, feed.Feeds[k].Title) = Listed(feed.Entries, feed.Feeds[k])

\* C5: after a completed processFeed, Items["all"] is the Entries sequence,
\* whatever the titles of the sources.
C5_AllIsEntries ==
    (op.kind = "processFeed" /\ fault = "none") => Get(feed.Items, "all") = feed.Entries

\* C6 as stated: one run of processFeed calls AddSource exactly once for each
\* distinct non-empty title in Feeds, and never with the empty string.
C6_OncePerTitle ==
    op.kind = "processFeed" =>
        /\ \A t \in TitlesOf(feed.Feeds) \ {""} : Count(added, t) = 1
        /\ Range(added) \subseteq TitlesOf(feed.Feeds) \ {""}

\* C6 as amended: one run of processFeed calls AddSource exactly once for
\* each source whose title is not empty, so a title is reported as many times
\* as there are sources bearing it, and the empty string is never reported.
C6_OncePerSource ==
    op.kind = "processFeed" =>
        /\ \A t \in TitlesOf(feed.Feeds) \ {""} :
               Count(added, t) = Cardinality(KeysTitled(feed.Feeds, t))
        /\ Range(added) \subseteq TitlesOf(feed.Feeds) \ {""}

\* a run over two sources bearing the same title reported it twice
C6_Witness ==
    /\ op.kind = "processFeed"
    /\ \E t \in TitlesOf(feed.Feeds) \ {""} :
           Cardinality(KeysTitled(feed.Feeds, t)) = 2 /\ Count(added, t) = 2

\* the white space d starts with, and ends with
Leading(d) ==
    CHOOSE a \in 0..Len(d) :
        /\ \A i \in 1..a : d[i] \in WhiteSpace
        /\ a = Len(d) \/ d[a + 1] \notin WhiteSpace
Trailing(d) ==
    CHOOSE b \in 0..Len(d) :
        /\ \A i \in (Len(d) - b + 1)..Len(d) : d[i] \in WhiteSpace
        /\ b = Len(d) \/ d[Len(d) - b] \notin WhiteSpace

\* d without the white space around it
Trimmed(d) == IF Leading(d) = Len(d) THEN <<>> ELSE SubSeq(d, Leading(d) + 1, Len(d) - Trailing(d))

\* C7: once processFeed has described the entries, the Description of an
\* entry whose meta["description"] is a string d is the first
\* min(len(trim(d)), 150) bytes of trim(d).
C7_DescriptionIsTrimmedPrefix ==
    (op.kind = "processFeed" /\ fault # "type assertion") =>
        \A i \in 1..Len(feed.Entries) :
            LET v == MetaLookup(feed.Entries[i].Meta, "description")
                D == feed.Entries[i].Description
            IN  v.kind = "string" =>
                    /\ Len(D) = IF Len(Trimmed(v.str)) <= DescLimit
                                THEN Len(Trimmed(v.str)) ELSE DescLimit
                    /\ \A j \in 1..Len(D) : D[j] = Trimmed(v.str)[j]

\* a padded description longer than the limit was cut to the limit
C7_Witness ==
    /\ op.kind = "processFeed"
    /\ \E i \in 1..Len(feed.Entries) :
           LET v == MetaLookup(feed.Entries[i].Meta, "description")
           IN  /\ v.kind = "string"
               /\ Len(Trimmed(v.str)) > DescLimit
               /\ Len(Trimmed(v.str)) < Len(v.str)
               /\ Len(feed.Entries[i].Description) = DescLimit

\* C8: for an entry without meta["description"], or with one that is not a
\* string, processFeed sets Description to "" and goes on without fault.
C8_NonStringIsEmpty ==
    op.kind = "processFeed" =>
        \A i \in 1..Len(feed.Entries) :
            MetaLookup(feed.Entries[i].Meta, "description").kind # "string" =>
                /\ fault # "type assertion"
                /\ feed.Entries[i].Description = <<>>

\* What does hold of the groups: a source whose title no other source bears,
\* and which is not "all", has its own list as its group; and without a
\* source titled "all" that lists entries, Items["all"] is Entries.
GroupOfUniqueTitle ==
    (op.kind = "processFeed" /\ fault = "none") =>
        \A k \in DOMAIN feed.Feeds :
            LET s == feed.Feeds[k]
            IN  (s.Title # "all" /\ KeysTitled(feed.Feeds, s.Title) = {k}) =>
                    Get(feed.Items, s.Title) = Listed(feed.Entries, s)
AllWithoutAllSource ==
    (/\ op.kind = "processFeed"
     /\ fault = "none"
     /\ \A k \in KeysTitled(feed.Feeds, "all") : feed.Feeds[k].Entries = <<>>)
        => Get(feed.Items, "all") = feed.Entries

\* C9: processFeed run again on the same Feeds and Entries leaves Items as
\* the run before left it: same keys, same sequence under each key.
C9_SecondRunSameItems ==
    [][(op.kind = "processFeed" /\ op'.kind = "processFeed" /\ fault' = "none")
          => feed'.Items = feed.Items]_vars

\* What does hold of a second run: the same keys, and under each key the same
\* entries as often, if not in the same order.
BagOf(seq) == [x \in Range(seq) |-> Count(seq, x)]
SecondRunSameBags ==
    [][(op.kind = "processFeed" /\ op'.kind = "processFeed" /\ fault' = "none")
          => /\ DOMAIN feed'.Items = DOMAIN feed.Items
             /\ \A n \in DOMAIN feed.Items : BagOf(feed'.Items[n]) = BagOf(feed.Items[n])]_vars

Quiet == fault = "none" /\ \A g \in Goroutines : pc[g] = "idle"

\* some group holds more entries than the source of that title lists
Excess ==
    \E k \in DOMAIN feed.Feeds :
        Len(Get(feed.Items, feed.Feeds[k].Title)) > Len(feed.Feeds[k].Entries)

\* C10: GetFeed takes no lock: two calls can be inside processFeed at once,
\* and only then do the appends of both land in one Items map, leaving
\* Items[title] with more entries than the source lists.  (That such a state
\* is reached is C10_Witness.)
C10_ExcessOnlyByOverlap == (Quiet /\ Excess) => overlap

\* both calls have returned, having overlapped, and a group is too long
C10_Witness == Quiet /\ Excess /\ overlap

====
